---- MODULE Spec2Model ----
(***************************************************************************)
(* neoplay: the MOD player of src/neoplay/src/player.rs, and the game of   *)
(* src/snake/src/lib.rs (modelled after the player, with its own           *)
(* specification SpecSnake).                                               *)
(*                                                                         *)
(* Player::next_sample is the only operation.  One call takes one of four  *)
(* paths (song exhausted, new line, end of a tick, just another sample);   *)
(* each path is one action, and each action models the whole call, the     *)
(* mixing loop at its end included.                                        *)
(*                                                                         *)
(* The song is read-only.  A (position, line) pair is loaded at most once  *)
(* (the position never decreases and the line cursor only grows inside a   *)
(* position), so the line found at a boundary is drawn from Lines when it  *)
(* is loaded; the song's first MaxLoads lines are any lines of Lines, the  *)
(* MaxRests lines after them are empty.  The neotracker crate (Fractional, *)
(* shift_period, the effect decoder) is a dependency of the repository; it *)
(* is modelled at the call sites of player.rs.                             *)
(***************************************************************************)
EXTENDS Integers, Sequences, FiniteSets, TLC

VARIABLES
    player,          \* the Player struct (player.rs 17-34)
    frame,           \* the (left, right) pair returned by the last call
    panic,           \* "none", or why the last call aborted instead of returning
    overflow_checks, \* the build: TRUE panics on integer overflow, FALSE wraps
    loads,           \* number of lines loaded so far
    loaded,          \* the line loaded by the last line-loading call
    last,            \* the path the last call took
    reads,           \* per channel: the byte index read by the last call, or NoRead
    wraps,           \* per channel: whether the last call wrapped the read position
    silent,          \* calls made while finished was already true (capped)
    calls,           \* calls that returned since the last line was loaded, its own included
    first_pass,      \* per channel: a sample was assigned and has not wrapped since
    player2,         \* a second Player built from the same module and sample rate
    frame2,          \* the pair the second Player returned
    game             \* the snake's Game struct (lib.rs 196-207) and where play is

vars == <<player, frame, panic, overflow_checks, loads, loaded, last, reads, wraps,
          silent, calls, first_pass, player2, frame2, game>>

----------------------------------------------------------------------------
(* Bounds of the model *)

\* entries of the song position list
SongLength == 3
\* lines of a pattern (pattern.line(n) is None from here on)
PatternLines == 2
\* lines of the song that carry any line of Lines
MaxLoads == 2
\* lines that follow them, all empty, before the exploration stops
MaxRests == 1
\* cap of the counter of calls after finished
MaxSilent == 2
\* width and height of the snake's board (Game.width, Game.height)
BoardWidth == 3
BoardHeight == 2

Channels == 0 .. 3

\* Option::None of pattern_break, sample_data, song_position, sample, a read
NoBreak == -1
NoData == 0
NoPattern == -1
NoRead == -1

\* u32::MAX, what a u32 subtraction that goes below zero wraps to by one; it is
\* past TLC's 32-bit integers and is written as its two's-complement reading
U32Max == -1
U16 == 65536
U8 == 256

----------------------------------------------------------------------------
(* The module: samples, notes, lines *)

\* sample_rate values: 49 gives samples_per_tick = 0, 50 gives 1, 100 gives 2,
\* 150 gives 3
SampleRates == {49, 50, 100, 150}

\* modfile.sample(n): the samples of the module, by sample number
SampleTable ==
    [n \in 1 .. 4 |->
        CASE n = 1 -> [volume |-> 64, loops |-> FALSE, length |-> 200,
                       repeat_point |-> 0, repeat_length |-> 2]
          [] n = 2 -> [volume |-> 32, loops |-> TRUE, length |-> 3000,
                       repeat_point |-> 100, repeat_length |-> 100]
          [] n = 3 -> [volume |-> 64, loops |-> TRUE, length |-> 150,
                       repeat_point |-> 100, repeat_length |-> 100]
          [] n = 4 -> [volume |-> 0, loops |-> FALSE, length |-> 0,
                       repeat_point |-> 0, repeat_length |-> 2]]

\* the signed byte at index i of sample s (i below the sample's length)
Wave(s, i) ==
    CASE s = 1 -> IF (i \div 64) % 2 = 0 THEN 127 ELSE -128
      [] s = 2 -> ((i * 7) % 256) - 128
      [] OTHER -> 100

\* what a read past the end of the sample's bytes may return
OobBytes == {-128, 127}

Effect(k, v) == [kind |-> k, value |-> v]
NoEffect == Effect("None", 0)
Note(s, p, e) == [sample_no |-> s, period |-> p, effect |-> e]
EmptyNote == Note(0, 0, NoEffect)

\* note.is_empty()
IsEmpty(note) == note.sample_no = 0 /\ note.period = 0

\* the notes a line may carry on channel 0
Notes ==
    { EmptyNote,
      Note(1, 428, NoEffect), Note(2, 428, NoEffect), Note(3, 214, NoEffect),
      Note(4, 428, NoEffect), Note(9, 428, NoEffect), Note(1, 0, NoEffect),
      Note(9, 428, Effect("VolumeSlide", 15)),
      Note(2, 428, Effect("Arpeggio", 0)), Note(1, 428, Effect("Arpeggio", 0)),
      Note(2, 428, Effect("Arpeggio", 71)), Note(2, 428, Effect("Arpeggio", 116)),
      Note(1, 214, Effect("SlideUp", 255)), Note(1, 428, Effect("SlideDown", 7)),
      Note(2, 428, Effect("VolumeSlide", 15)), Note(2, 428, Effect("VolumeSlide", -15)),
      Note(3, 428, Effect("VolumeSlide", 15)),
      Note(2, 428, Effect("SetVolume", 80)),
      Note(0, 0, Effect("SetSpeed", 0)), Note(0, 0, Effect("SetSpeed", 4)),
      Note(0, 0, Effect("SetSpeed", 1)), Note(0, 0, Effect("SetSpeed", 32)),
      Note(1, 428, Effect("SampleOffset", 1)), Note(2, 428, Effect("SampleOffset", 10)),
      Note(0, 0, Effect("PatternBreak", 0)), Note(1, 428, Effect("PatternBreak", 1)),
      Note(0, 0, Effect("PatternBreak", 70)),
      Note(0, 0, Effect("SlideDown", 7)), Note(0, 0, Effect("SlideUp", 3)),
      Note(0, 0, Effect("VolumeSlide", 15)), Note(0, 0, Effect("Vibrato", 1)) }

OneChannel(c, n) == [k \in Channels |-> IF k = c THEN n ELSE EmptyNote]

\* the lines of the patterns: channel 0 carries any note of Notes; the other
\* channels carry a note alone, and one line plays a loud note on all four
Lines ==
    { OneChannel(0, n) : n \in Notes }
    \cup { OneChannel(c, Note(1, 428, NoEffect)) : c \in 1 .. 3 }
    \cup { [k \in Channels |-> Note(1, 428, NoEffect)],
           OneChannel(3, Note(0, 0, Effect("PatternBreak", 1))),
           [k \in Channels |-> IF k = 1 THEN Note(0, 0, Effect("SetSpeed", 3))
                               ELSE Note(0, 0, Effect("SetSpeed", 5))] }

\* the line of the song loaded after `before` others
EmptyLine == [k \in Channels |-> EmptyNote]
LinesAfter(before) == IF before < MaxLoads THEN Lines ELSE {EmptyLine}

\* modfile.song_position(position): the pattern index, None past the song's end
SongPosition(position) == IF position < SongLength THEN position ELSE NoPattern

\* pattern.line(line) is Some for the lines of the pattern
HasLine(line) == line < PatternLines

\* modfile.sample(n) is Some for the samples of the module
HasSample(n) == n \in DOMAIN SampleTable

----------------------------------------------------------------------------
(* neotracker::Fractional: a fixed-point number, 8 fractional bits *)

FractionalBits == 8
ClockRate == 3546895

FractionalNew(value) == value * (2 ^ FractionalBits)
NewFromSampleRate(sample_rate) == (ClockRate * (2 ^ FractionalBits)) \div sample_rate
\* apply_period divides by the period; the notes of the model never take it to
\* a period of 0 (ApplyPeriodDefined), where the result is the library's
NoStep == -1
ApplyPeriod(clock, period) == IF period = 0 THEN NoStep ELSE clock \div period
AsIndex(f) == f \div (2 ^ FractionalBits)

\* neotracker::shift_period: the period half_steps further in the period table
NoPeriod == -1

PeriodTable ==
    << 856, 808, 762, 720, 678, 640, 604, 570, 538, 508, 480, 453,
       428, 404, 381, 360, 339, 320, 302, 285, 269, 254, 240, 226,
       214, 202, 190, 180, 170, 160, 151, 143, 135, 127, 120, 113 >>

ShiftPeriod(period, half_steps) ==
    LET at == { i \in DOMAIN PeriodTable : PeriodTable[i] = period }
    IN  IF at = {} THEN NoPeriod
        ELSE LET i == CHOOSE j \in at : TRUE
             IN  IF i + half_steps \in DOMAIN PeriodTable
                 THEN PeriodTable[i + half_steps] ELSE NoPeriod

----------------------------------------------------------------------------
(* Player::new *)

\* Channel::default()
DefaultChannel ==
    [sample_data |-> NoData, sample_loops |-> FALSE, sample_length |-> 0,
     repeat_length |-> 0, repeat_point |-> 0, volume |-> 0, note_period |-> 0,
     sample_position |-> 0, note_step |-> 0, effect |-> NoEffect]

NewPlayer(sample_rate) ==
    [samples_left |-> 0, ticks_left |-> 0, ticks_per_line |-> 6,
     third_ticks_per_line |-> 2, samples_per_tick |-> sample_rate \div 50,
     clock_ticks_per_device_sample |-> NewFromSampleRate(sample_rate),
     position |-> 0, line |-> 0, finished |-> FALSE, pattern_break |-> NoBreak,
     channels |-> [c \in Channels |-> DefaultChannel]]

----------------------------------------------------------------------------
(* next_sample, the line boundary: which line plays next *)

\* "It is time for a new line"
AtLineBoundary(p) == p.ticks_left = 0 /\ p.samples_left = 0

\* (a variant that leaves the pattern break pending)
MutPatternBreakKept(p) ==
    IF p.pattern_break # NoBreak
    THEN [p EXCEPT !.position = (@ + 1) % U8, !.line = p.pattern_break]
    ELSE p

\* (a variant that always jumps to the top of the next pattern)
MutPatternBreakToTop(p) ==
    IF p.pattern_break # NoBreak
    THEN [p EXCEPT !.pattern_break = NoBreak, !.position = (@ + 1) % U8, !.line = 0]
    ELSE p

\* "Did we have a pattern break? Jump straight there."
ApplyPatternBreak(p) ==
    IF p.pattern_break # NoBreak
    THEN [p EXCEPT !.pattern_break = NoBreak, !.position = (@ + 1) % U8,
                   !.line = p.pattern_break]
    ELSE p

\* (a variant that stops the song at the end of a pattern)
MutFindLineStopsAtPatternEnd(p) ==
    IF SongPosition(p.position) = NoPattern \/ ~HasLine(p.line)
    THEN [found |-> FALSE, p |-> [p EXCEPT !.finished = TRUE]]
    ELSE [found |-> TRUE, p |-> p]

\* (a variant that skips a position when it leaves a pattern)
MutFindLineSkipsOne(p) ==
    IF SongPosition(p.position) = NoPattern
    THEN [found |-> FALSE, p |-> [p EXCEPT !.finished = TRUE]]
    ELSE IF ~HasLine(p.line)
         THEN LET q == [p EXCEPT !.line = 0, !.position = (@ + 2) % U8]
              IN  IF SongPosition(q.position) = NoPattern
                  THEN [found |-> FALSE, p |-> [q EXCEPT !.finished = TRUE]]
                  ELSE [found |-> TRUE, p |-> q]
         ELSE [found |-> TRUE, p |-> p]

\* the loop that finds the line: found is FALSE when the position list is
\* exhausted, and p is the player as the loop left it
RECURSIVE FindLine(_)
FindLine(p) ==
    IF SongPosition(p.position) = NoPattern
    THEN [found |-> FALSE, p |-> [p EXCEPT !.finished = TRUE]]
    ELSE IF ~HasLine(p.line)
         THEN FindLine([p EXCEPT !.line = 0, !.position = (@ + 1) % U8])
         ELSE [found |-> TRUE, p |-> p]

NextLine(p) == FindLine(ApplyPatternBreak(p))

----------------------------------------------------------------------------
(* next_sample, the line boundary: load four channels with new line data *)

\* (a variant that takes the pitch of a note whose sample does not exist)
MutPitchWithoutSample(ch, note, clock) ==
    IF IsEmpty(note) THEN ch
    ELSE IF ~HasSample(note.sample_no)
         THEN IF note.period # 0
              THEN [ch EXCEPT !.note_period = note.period,
                              !.note_step = ApplyPeriod(clock, note.period)]
              ELSE ch
         ELSE LET s == SampleTable[note.sample_no]
                  pitched ==
                      IF note.period # 0
                      THEN [ch EXCEPT !.note_period = note.period,
                                      !.note_step = ApplyPeriod(clock, note.period)]
                      ELSE ch
              IN  [pitched EXCEPT !.volume = s.volume,
                                  !.sample_data = note.sample_no,
                                  !.sample_loops = s.loops,
                                  !.sample_length = s.length,
                                  !.repeat_length = s.repeat_length,
                                  !.repeat_point = s.repeat_point,
                                  !.sample_position = 0]

\* "Do we have a new sample to play?"
LoadNote(ch, note, clock) ==
    IF IsEmpty(note) \/ ~HasSample(note.sample_no)
    THEN ch
    ELSE LET s == SampleTable[note.sample_no]
             pitched ==
                 IF note.period # 0
                 THEN [ch EXCEPT !.note_period = note.period,
                                 !.note_step = ApplyPeriod(clock, note.period)]
                 ELSE ch
         IN  [pitched EXCEPT !.volume = s.volume,
                             !.sample_data = note.sample_no,
                             !.sample_loops = s.loops,
                             !.sample_length = s.length,
                             !.repeat_length = s.repeat_length,
                             !.repeat_point = s.repeat_point,
                             !.sample_position = 0]

Recurring == {"Arpeggio", "SlideUp", "SlideDown", "VolumeSlide"}

\* (a variant that carries out the pattern break as the line is loaded)
MutPatternBreakNow(p, c, e) ==
    LET q == [p EXCEPT !.channels[c].effect = NoEffect]
    IN  CASE e.kind \in Recurring -> [q EXCEPT !.channels[c].effect = e]
          [] e.kind = "SetVolume" -> [q EXCEPT !.channels[c].volume = e.value]
          [] e.kind = "SetSpeed" ->
                IF e.value <= 31
                THEN [q EXCEPT !.ticks_per_line = e.value,
                               !.third_ticks_per_line = e.value \div 3]
                ELSE q
          [] e.kind = "SampleOffset" ->
                [q EXCEPT !.channels[c].sample_position = FractionalNew(e.value * 256)]
          [] e.kind = "PatternBreak" ->
                [q EXCEPT !.pattern_break = NoBreak, !.position = (@ + 1) % U8,
                          !.line = e.value]
          [] OTHER -> q

\* (a variant that takes every Set speed value as ticks per line)
MutSetSpeedAny(p, c, e) ==
    LET q == [p EXCEPT !.channels[c].effect = NoEffect]
    IN  CASE e.kind \in Recurring -> [q EXCEPT !.channels[c].effect = e]
          [] e.kind = "SetVolume" -> [q EXCEPT !.channels[c].volume = e.value]
          [] e.kind = "SetSpeed" ->
                [q EXCEPT !.ticks_per_line = e.value,
                          !.third_ticks_per_line = e.value \div 3]
          [] e.kind = "SampleOffset" ->
                [q EXCEPT !.channels[c].sample_position = FractionalNew(e.value * 256)]
          [] e.kind = "PatternBreak" -> [q EXCEPT !.pattern_break = e.value]
          [] OTHER -> q

\* (a variant that does not clear the channel's effect first)
MutEffectNotCleared(p, c, e) ==
    CASE e.kind \in Recurring -> [p EXCEPT !.channels[c].effect = e]
      [] e.kind = "SetVolume" -> [p EXCEPT !.channels[c].volume = e.value]
      [] e.kind = "SetSpeed" ->
            IF e.value <= 31
            THEN [p EXCEPT !.ticks_per_line = e.value,
                           !.third_ticks_per_line = e.value \div 3]
            ELSE p
      [] e.kind = "SampleOffset" ->
            [p EXCEPT !.channels[c].sample_position = FractionalNew(e.value * 256)]
      [] e.kind = "PatternBreak" -> [p EXCEPT !.pattern_break = e.value]
      [] OTHER -> p

\* "match note.effect()" for channel c; p is the player with the note loaded
LoadEffect(p, c, e) ==
    LET q == [p EXCEPT !.channels[c].effect = NoEffect]
    IN  CASE e.kind \in Recurring -> [q EXCEPT !.channels[c].effect = e]
          [] e.kind = "SetVolume" -> [q EXCEPT !.channels[c].volume = e.value]
          [] e.kind = "SetSpeed" ->
                IF e.value <= 31
                THEN [q EXCEPT !.ticks_per_line = e.value,
                               !.third_ticks_per_line = e.value \div 3]
                ELSE q
          [] e.kind = "SampleOffset" ->
                [q EXCEPT !.channels[c].sample_position = FractionalNew(e.value * 256)]
          [] e.kind = "PatternBreak" -> [q EXCEPT !.pattern_break = e.value]
          [] OTHER -> q

\* (a variant that handles the effect before it loads the note)
MutEffectBeforeNote(p, c, note) ==
    [LoadEffect(p, c, note.effect) EXCEPT
        !.channels[c] = LoadNote(@, note, p.clock_ticks_per_device_sample)]

\* one turn of "for (channel_num, ch) in self.channels.iter_mut().enumerate()"
LoadChannel(p, c, note) ==
    LoadEffect(
        [p EXCEPT !.channels[c] = LoadNote(@, note, p.clock_ticks_per_device_sample)],
        c, note.effect)

LoadLine(p, ln) ==
    LoadChannel(LoadChannel(LoadChannel(LoadChannel(p, 0, ln[0]), 1, ln[1]), 2, ln[2]),
                3, ln[3])

\* v - 1 in wrapping u32 arithmetic
WrappingDec(v) == IF v = 0 THEN U32Max ELSE v - 1

\* "self.line += 1; self.samples_left = ...; self.ticks_left = ..." with u32
\* arithmetic that wraps (the build without overflow checks)
ResetCounters(p) ==
    [p EXCEPT !.line = @ + 1,
              !.samples_left = WrappingDec(p.samples_per_tick),
              !.ticks_left = WrappingDec(p.ticks_per_line)]

\* the subtractions of ResetCounters go below zero
ResetUnderflows(p) == p.samples_per_tick = 0 \/ p.ticks_per_line = 0

----------------------------------------------------------------------------
(* next_sample, the end of a tick: the recurring effects *)

\* a channel with a new period: the step is recomputed from it
WithPeriod(ch, period, clock) ==
    [ch EXCEPT !.note_period = period, !.note_step = ApplyPeriod(clock, period)]

\* shift_period's Some(new_period) is applied, its None is not
Shifted(ch, half_steps, clock) ==
    LET new_period == ShiftPeriod(ch.note_period, half_steps)
    IN  IF new_period # NoPeriod THEN WithPeriod(ch, new_period, clock) ELSE ch

\* (a variant whose upper third is off by one half step)
MutArpeggioOffByOne(ch, n, ticks_left, lower_third, clock) ==
    LET upper_third == lower_third * 2
        first_half_steps == n \div 16
        second_half_steps == n % 16
    IN  IF ticks_left = upper_third
        THEN Shifted(ch, first_half_steps + 1, clock)
        ELSE IF ticks_left = lower_third
             THEN Shifted(ch, (second_half_steps - first_half_steps) % U8, clock)
             ELSE ch

\* Effect::Arpeggio(n): n >> 4 at the upper third, (n & 0x0F) - (n >> 4), a u8
\* subtraction, at the lower third
ArpeggioTick(ch, n, ticks_left, lower_third, clock) ==
    LET upper_third == lower_third * 2
        first_half_steps == n \div 16
        second_half_steps == n % 16
    IN  IF ticks_left = upper_third
        THEN Shifted(ch, first_half_steps, clock)
        ELSE IF ticks_left = lower_third
             THEN Shifted(ch, (second_half_steps - first_half_steps) % U8, clock)
             ELSE ch

\* Effect::SlideUp(n): ch.note_period -= n, a u16 subtraction
SlideUpTick(ch, n, clock) == WithPeriod(ch, (ch.note_period - n) % U16, clock)

\* Effect::SlideDown(n): ch.note_period += n, a u16 addition
SlideDownTick(ch, n, clock) == WithPeriod(ch, (ch.note_period + n) % U16, clock)

\* "as i8" of a u8, and the wrapping i8 sum
AsI8(v) == IF v % U8 >= 128 THEN (v % U8) - U8 ELSE v % U8

\* (a variant without the range check)
MutVolumeSlideUnchecked(ch, n) ==
    [ch EXCEPT !.volume = (AsI8(ch.volume) + n) % U8]

\* Effect::VolumeSlide(n): the new volume is kept when it is in 0..=63
VolumeSlideTick(ch, n) ==
    LET new_volume == AsI8(AsI8(ch.volume) + n)
    IN  IF new_volume \in 0 .. 63 THEN [ch EXCEPT !.volume = new_volume] ELSE ch

\* "match ch.effect" for one channel
TickChannel(ch, ticks_left, lower_third, clock) ==
    CASE ch.effect.kind = "Arpeggio" ->
            ArpeggioTick(ch, ch.effect.value, ticks_left, lower_third, clock)
      [] ch.effect.kind = "SlideUp" -> SlideUpTick(ch, ch.effect.value, clock)
      [] ch.effect.kind = "SlideDown" -> SlideDownTick(ch, ch.effect.value, clock)
      [] ch.effect.kind = "VolumeSlide" -> VolumeSlideTick(ch, ch.effect.value)
      [] OTHER -> ch

\* the integer overflow in TickChannel, if any: what the build with overflow
\* checks panics on
TickOverflow(ch, ticks_left, lower_third) ==
    CASE ch.effect.kind = "Arpeggio"
         /\ ticks_left # lower_third * 2 /\ ticks_left = lower_third
         /\ ch.effect.value % 16 < ch.effect.value \div 16 -> "arpeggio"
      [] ch.effect.kind = "SlideUp" /\ ch.note_period < ch.effect.value -> "period"
      [] ch.effect.kind = "SlideDown" /\ ch.note_period + ch.effect.value >= U16 -> "period"
      [] ch.effect.kind = "VolumeSlide"
         /\ AsI8(ch.volume) + ch.effect.value \notin -128 .. 127 -> "volume"
      [] OTHER -> "none"

\* "end of a tick": the counters, then every channel's effect
EndOfTick(p) ==
    LET ticks_left == p.ticks_left - 1
    IN  [p EXCEPT !.samples_left = WrappingDec(p.samples_per_tick),
                  !.ticks_left = ticks_left,
                  !.channels = [c \in Channels |->
                      TickChannel(p.channels[c], ticks_left, p.third_ticks_per_line,
                                  p.clock_ticks_per_device_sample)]]

\* the first overflow of the call, in the order of the code
EndOfTickOverflow(p) ==
    IF p.samples_per_tick = 0 THEN "counters"
    ELSE LET bad == { c \in Channels :
                        TickOverflow(p.channels[c], p.ticks_left - 1,
                                     p.third_ticks_per_line) # "none" }
         IN  IF bad = {} THEN "none"
             ELSE TickOverflow(p.channels[CHOOSE c \in bad : \A d \in bad : c <= d],
                               p.ticks_left - 1, p.third_ticks_per_line)

\* "just another sample"
JustSample(p) == [p EXCEPT !.samples_left = @ - 1]

----------------------------------------------------------------------------
(* next_sample: "Pump existing channels" *)

\* Rust's integer division truncates toward zero
TruncDiv(a, b) == IF a >= 0 THEN a \div b ELSE -((-a) \div b)

Clamp(v, lo, hi) == IF v < lo THEN lo ELSE IF v > hi THEN hi ELSE v

\* (a variant that does not skip a sample of zero length)
MutActiveAnyLength(ch) == ch.note_period # 0 /\ ch.sample_data # NoData

\* the channel is not skipped by the mixing loop
Active(ch) == ch.note_period # 0 /\ ch.sample_length # 0 /\ ch.sample_data # NoData

\* the read of the mixing loop leaves the sample's bytes
ReadsOutOfBounds(ch) == Active(ch) /\ AsIndex(ch.sample_position) >= ch.sample_length

\* (a variant that restarts at the sample's first byte)
MutLoopRestartAtZero(ch) == FractionalNew(0)

\* "loop sample if required": where the read position restarts
LoopRestart(ch) == FractionalNew(ch.repeat_point)

\* "stop playing sample": the test of the non-looping branch
StopsAt(ch, position) == AsIndex(position) >= ch.sample_length

\* one turn of the mixing loop; ob is the byte an out-of-bounds read returns
PumpChannel(ch, ob) ==
    IF ~Active(ch)
    THEN [ch |-> ch, value |-> 0, read |-> NoRead, wrapped |-> FALSE]
    ELSE LET integer_pos == AsIndex(ch.sample_position)
             sample_byte == IF integer_pos < ch.sample_length
                            THEN Wave(ch.sample_data, integer_pos) ELSE ob
             channel_value == TruncDiv(sample_byte * 256 * ch.volume, 64)
             position == ch.sample_position + ch.note_step
             wrapped == ch.sample_loops
                        /\ AsIndex(position) >= ch.repeat_point + ch.repeat_length
             stopped == ~ch.sample_loops /\ StopsAt(ch, position)
         IN  [ch |-> [ch EXCEPT !.sample_position =
                                    IF wrapped THEN LoopRestart(ch) ELSE position,
                                !.note_period = IF stopped THEN 0 ELSE @],
              value |-> channel_value, read |-> integer_pos, wrapped |-> wrapped]

\* (a variant that sums channels 0 and 1 to the left, 2 and 3 to the right)
MutPumpSides(p, ob) ==
    LET r == [c \in Channels |-> PumpChannel(p.channels[c], ob[c])]
        left_sample == r[0].value + r[1].value
        right_sample == r[2].value + r[3].value
    IN  [player |-> [p EXCEPT !.channels = [c \in Channels |-> r[c].ch]],
         frame |-> <<Clamp(left_sample, -32768, 32767), Clamp(right_sample, -32768, 32767)>>,
         reads |-> [c \in Channels |-> r[c].read],
         wraps |-> [c \in Channels |-> r[c].wrapped]]

\* the mixing loop: the player after it, the frame, and what it read
Pump(p, ob) ==
    LET r == [c \in Channels |-> PumpChannel(p.channels[c], ob[c])]
        left_sample == r[0].value + r[3].value
        right_sample == r[1].value + r[2].value
    IN  [player |-> [p EXCEPT !.channels = [c \in Channels |-> r[c].ch]],
         frame |-> <<Clamp(left_sample, -32768, 32767), Clamp(right_sample, -32768, 32767)>>,
         reads |-> [c \in Channels |-> r[c].read],
         wraps |-> [c \in Channels |-> r[c].wrapped]]

\* the bytes the out-of-bounds reads of one call may return: one choice per
\* channel that reads out of bounds
OobChoices(p) ==
    LET out == { c \in Channels : ReadsOutOfBounds(p.channels[c]) }
    IN  { [c \in Channels |-> IF c \in out THEN x[c] ELSE 0] :
            x \in [Channels -> OobBytes] }

----------------------------------------------------------------------------
(* next_sample: the four paths of a call, as the call's result *)

NoReads == [c \in Channels |-> NoRead]
NoWraps == [c \in Channels |-> FALSE]

\* "self.finished = true; return (0, 0)"
FinishedCall(p) ==
    [player |-> NextLine(p).p, frame |-> <<0, 0>>, reads |-> NoReads, wraps |-> NoWraps]

\* the player with line ln loaded, before the counters are reset
Loaded(p, ln) == LoadLine(NextLine(p).p, ln)

NewLineCall(p, ln, ob) == Pump(ResetCounters(Loaded(p, ln)), ob)

EndOfTickCall(p, ob) == Pump(EndOfTick(p), ob)

JustSampleCall(p, ob) == Pump(JustSample(p), ob)

\* a counter has wrapped below zero: the line then lasts 2^32 ticks or
\* samples, and the exploration stops there
CounterWrapped(p) == p.ticks_left = U32Max \/ p.samples_left = U32Max

Min(a, b) == IF a < b THEN a ELSE b

----------------------------------------------------------------------------
(* snake: the Game and Board of src/snake/src/lib.rs.  score, offset and   *)
(* tick_interval_ms only reach the screen and the delay between two moves, *)
(* and are left out.                                                       *)

\* Game::MAX_WIDTH, Game::MAX_HEIGHT: the size of the cells array
MaxWidth == 78
MaxHeight == 23
\* moves for which the tail stays after a game starts or food is eaten, and
\* the value Game::new gives digesting
Digest == 2
NewDigesting == 3
\* u8::MAX, what a u8 subtraction from 0 by one wraps to
U8Max == 255

Directions == {"Up", "Down", "Left", "Right"}

is_horizontal(d) == d = "Left" \/ d = "Right"

is_vertical(d) == d = "Up" \/ d = "Down"

Position(row, col) == [row |-> row, col |-> col]

\* the cells the game uses; the cells array is larger, and its other cells
\* stay Empty
Field(width, height) == { Position(r, c) : r \in 0 .. height - 1, c \in 0 .. width - 1 }

\* Board::new, Board::reset
BoardNew(width, height) == [pos \in Field(width, height) |-> "Empty"]

\* cells[row][col]; an index past the array panics, and is never asked here
Cell(cells, pos) == IF pos \in DOMAIN cells THEN cells[pos] ELSE "Empty"

InArray(pos) == pos.row \in 0 .. MaxHeight - 1 /\ pos.col \in 0 .. MaxWidth - 1

SetCell(cells, pos, piece) ==
    IF pos \in DOMAIN cells THEN [cells EXCEPT ![pos] = piece] ELSE cells

store_body(cells, pos, direction) == SetCell(cells, pos, direction)

store_food(cells, pos) == SetCell(cells, pos, "Food")

is_food(cells, pos) == Cell(cells, pos) = "Food"

is_body(cells, pos) == Cell(cells, pos) \in Directions

is_empty(cells, pos) == Cell(cells, pos) = "Empty"

\* Board::remove_piece: the direction that was stored, or "None", and the
\* board with the cell emptied
remove_piece(cells, pos) ==
    [old |-> IF is_body(cells, pos) THEN Cell(cells, pos) ELSE "None",
     cells |-> SetCell(cells, pos, "Empty")]

\* Game::new; status tells where the program is: "idle" outside Game::play,
\* "playing" at the input loop, "searching" in a random_empty_position that
\* finds no empty cell, or the panic that ended it
GameNew(width, height) ==
    [ board     |-> BoardNew(width, height),
      width     |-> width,
      height    |-> height,
      head      |-> Position(0, 0),
      tail      |-> Position(0, 0),
      direction |-> "Up",
      digesting |-> NewDigesting,
      status    |-> "idle" ]

\* the positions random_empty_position can return
EmptyPositions(g) == { pos \in DOMAIN g.board : is_empty(g.board, pos) }

\* Game::play up to the food: digesting, board and snake reset;
\* the direction is kept from the game before
PlayReset(g) ==
    LET start == Position(g.height \div 4, g.width \div 4)
    IN  [g EXCEPT !.digesting = Digest,
                  !.head = start,
                  !.tail = start,
                  !.board = store_body(BoardNew(g.width, g.height), start, g.direction),
                  !.status = "playing"]

AddFood(g, pos) == [g EXCEPT !.board = store_food(g.board, pos)]

\* one key read by the input loop
Turn(direction, key) ==
    CASE key \in {"w", "W"} -> IF is_horizontal(direction) THEN "Up" ELSE direction
      [] key \in {"s", "S"} -> IF is_horizontal(direction) THEN "Down" ELSE direction
      [] key \in {"a", "A"} -> IF is_vertical(direction) THEN "Left" ELSE direction
      [] key \in {"d", "D"} -> IF is_vertical(direction) THEN "Right" ELSE direction
      [] OTHER -> direction

\* the keys tried: the five the game knows, and one it ignores
Keys == {"w", "s", "a", "d", "q", "x"}

MutOldHeadNotMarked(g) == g

\* the old head's cell is marked with the way the snake leaves it
MarkOldHead(g) == [g EXCEPT !.board = store_body(g.board, g.head, g.direction)]

\* the head is at the edge it is heading for
HitsWall(g) ==
    CASE g.direction = "Up" -> g.head.row = 0
      [] g.direction = "Down" -> g.head.row = g.height - 1
      [] g.direction = "Left" -> g.head.col = 0
      [] g.direction = "Right" -> g.head.col = g.width - 1

Moved(pos, direction) ==
    CASE direction = "Up" -> [pos EXCEPT !.row = @ - 1]
      [] direction = "Down" -> [pos EXCEPT !.row = @ + 1]
      [] direction = "Left" -> [pos EXCEPT !.col = @ - 1]
      [] direction = "Right" -> [pos EXCEPT !.col = @ + 1]

MoveHead(g) == [g EXCEPT !.head = Moved(g.head, g.direction)]

\* the food under the head is eaten: the tail stays for two moves
Eat(g) == [g EXCEPT !.digesting = Digest]

WriteHead(g) == [g EXCEPT !.board = store_body(g.board, g.head, g.direction)]

\* the u8 subtraction of the tail's move goes below zero
TailUnderflows(pos, direction) ==
    \/ direction = "Up" /\ pos.row = 0
    \/ direction = "Left" /\ pos.col = 0

WrappedTail(pos, direction) ==
    IF direction = "Up" THEN [pos EXCEPT !.row = U8Max] ELSE [pos EXCEPT !.col = U8Max]

\* the end of a move: the tail is removed and follows its direction, or the
\* snake digests.  The outcomes of either build: an underflow panics with
\* overflow checks and wraps without them
TailOutcomes(g) ==
    IF g.digesting # 0
    THEN {[g EXCEPT !.digesting = @ - 1]}
    ELSE IF ~InArray(g.tail)
    THEN {[g EXCEPT !.status = "index"]}
    ELSE LET r == remove_piece(g.board, g.tail)
             cut == [g EXCEPT !.board = r.cells]
         IN  IF r.old = "None"
             THEN {[cut EXCEPT !.status = "bad_game_state"]}
             ELSE IF TailUnderflows(g.tail, r.old)
             THEN {[cut EXCEPT !.status = "overflow"],
                   [cut EXCEPT !.tail = WrappedTail(g.tail, r.old)]}
             ELSE {[cut EXCEPT !.tail = Moved(g.tail, r.old)]}

----------------------------------------------------------------------------
(* One Player *)

Init ==
    /\ overflow_checks \in BOOLEAN
    /\ \E sample_rate \in SampleRates :
          /\ player = NewPlayer(sample_rate)
          /\ player2 = NewPlayer(sample_rate)
    /\ frame = <<0, 0>>
    /\ frame2 = <<0, 0>>
    /\ panic = "none"
    /\ loads = 0
    /\ loaded = [c \in Channels |-> EmptyNote]
    /\ last = "new"
    /\ reads = NoReads
    /\ wraps = NoWraps
    /\ silent = 0
    /\ calls = 0
    /\ first_pass = [c \in Channels |-> FALSE]
    /\ game = GameNew(BoardWidth, BoardHeight)

Returns(r, path) ==
    /\ player' = r.player
    /\ frame' = r.frame
    /\ reads' = r.reads
    /\ wraps' = r.wraps
    /\ last' = path
    /\ panic' = "none"

\* the note assigns its sample to the channel
Assigns(note) == ~IsEmpty(note) /\ HasSample(note.sample_no)

\* first_pass after a call that loaded line ln and returned
FirstPassAfter(ln) ==
    [c \in Channels |-> ~wraps'[c] /\ (Assigns(ln[c]) \/ first_pass[c])]

Aborts(why, path) ==
    /\ panic' = why
    /\ last' = path
    /\ UNCHANGED <<player, frame, reads, wraps>>

\* what a call does to the second Player: nothing when one Player is
\* driven, the same call when the two are driven in step
SecondIdle == UNCHANGED <<player2, frame2>>

SecondFinished ==
    /\ player2' = FinishedCall(player2).player
    /\ frame2' = FinishedCall(player2).frame

SecondLoads(ln) ==
    \E ob \in OobChoices(ResetCounters(Loaded(player2, ln))) :
        /\ player2' = NewLineCall(player2, ln, ob).player
        /\ frame2' = NewLineCall(player2, ln, ob).frame

SecondTicks ==
    \E ob \in OobChoices(EndOfTick(player2)) :
        /\ player2' = EndOfTickCall(player2, ob).player
        /\ frame2' = EndOfTickCall(player2, ob).frame

SecondSample ==
    \E ob \in OobChoices(JustSample(player2)) :
        /\ player2' = JustSampleCall(player2, ob).player
        /\ frame2' = JustSampleCall(player2, ob).frame

\* the position list is exhausted
Finished ==
    /\ panic = "none"
    /\ AtLineBoundary(player)
    /\ ~NextLine(player).found
    /\ Returns(FinishedCall(player), "finished")
    /\ silent' = IF player.finished THEN Min(silent + 1, MaxSilent) ELSE silent
    /\ UNCHANGED <<game, overflow_checks, loads, loaded, calls, first_pass>>

\* a new line, one of `lines`, is loaded; with pair, the second Player loads
\* it too
LoadPath(pair, lines) ==
    /\ panic = "none"
    /\ AtLineBoundary(player)
    /\ NextLine(player).found
    /\ \E ln \in lines :
          /\ loaded' = ln
          /\ IF overflow_checks /\ ResetUnderflows(Loaded(player, ln))
             THEN Aborts("counters", "line")
                  /\ UNCHANGED <<calls, first_pass, player2, frame2>>
             ELSE /\ \E ob \in OobChoices(ResetCounters(Loaded(player, ln))) :
                        Returns(NewLineCall(player, ln, ob), "line")
                  /\ calls' = 1
                  /\ first_pass' = FirstPassAfter(ln)
                  /\ IF pair THEN SecondLoads(ln) ELSE SecondIdle
    /\ loads' = loads + 1
    /\ UNCHANGED <<game, overflow_checks, silent>>

\* a new line is loaded, while the exploration goes on
NewLine(pair) == loads < MaxLoads + MaxRests /\ LoadPath(pair, LinesAfter(loads))

\* the end of a tick
EndOfTickPath(pair) ==
    /\ panic = "none"
    /\ ~AtLineBoundary(player)
    /\ player.samples_left = 0
    /\ ~CounterWrapped(player)
    /\ IF overflow_checks /\ EndOfTickOverflow(player) # "none"
       THEN Aborts(EndOfTickOverflow(player), "tick")
            /\ UNCHANGED <<calls, first_pass, player2, frame2>>
       ELSE /\ \E ob \in OobChoices(EndOfTick(player)) :
                  Returns(EndOfTickCall(player, ob), "tick")
            /\ calls' = calls + 1
            /\ first_pass' = FirstPassAfter(EmptyLine)
            /\ IF pair THEN SecondTicks ELSE SecondIdle
    /\ UNCHANGED <<game, overflow_checks, loads, loaded, silent>>

\* just another sample
JustSamplePath ==
    /\ panic = "none"
    /\ player.samples_left # 0
    /\ ~CounterWrapped(player)
    /\ \E ob \in OobChoices(JustSample(player)) :
          Returns(JustSampleCall(player, ob), "sample")
    /\ calls' = calls + 1
    /\ first_pass' = FirstPassAfter(EmptyLine)
    /\ UNCHANGED <<game, overflow_checks, loads, loaded, silent>>

NextSampleFinished == Finished /\ SecondIdle

NextSampleNewLine == NewLine(FALSE)

NextSampleEndOfTick == EndOfTickPath(FALSE)

NextSampleJustSample == JustSamplePath /\ SecondIdle

\* apply_period was never given a period of 0
ApplyPeriodDefined == \A c \in Channels : player.channels[c].note_step # NoStep

Next ==
    \/ NextSampleFinished
    \/ NextSampleNewLine
    \/ NextSampleEndOfTick
    \/ NextSampleJustSample

Spec == Init /\ [][Next]_vars

----------------------------------------------------------------------------
(* Two Players built from the same module and sample rate, driven in step *)

PairFinished == Finished /\ SecondFinished

PairNewLine == NewLine(TRUE)

PairEndOfTick == EndOfTickPath(TRUE)

PairJustSample == JustSamplePath /\ SecondSample

NextPair ==
    \/ PairFinished
    \/ PairNewLine
    \/ PairEndOfTick
    \/ PairJustSample

SpecPair == Init /\ [][NextPair]_vars

----------------------------------------------------------------------------
(* One Player that is called again and again, and plays to the song's end:  *)
(* the sample rate gives at least one sample per tick, no line sets the     *)
(* speed to 0, and the song's lines after the first MaxLoads are empty      *)

SetsSpeedZero(ln) == \E c \in Channels : ln[c].effect = Effect("SetSpeed", 0)

LiveLinesAfter(before) ==
    IF before < MaxLoads THEN { ln \in Lines : ~SetsSpeedZero(ln) } ELSE {EmptyLine}

InitLive == Init /\ player.samples_per_tick >= 1

LiveFinished == Finished /\ SecondIdle

LiveNewLine == LoadPath(FALSE, LiveLinesAfter(loads))

LiveEndOfTick == EndOfTickPath(FALSE)

LiveJustSample == JustSamplePath /\ SecondIdle

NextLive ==
    \/ LiveFinished
    \/ LiveNewLine
    \/ LiveEndOfTick
    \/ LiveJustSample

\* the caller calls next_sample again whenever a call has returned
SpecLive == InitLive /\ [][NextLive]_vars /\ WF_vars(NextLive)

----------------------------------------------------------------------------
(* The snake: App::play calls Game::play again and again.  The Player's    *)
(* variables are no part of it and keep the values of one construction.    *)

player_vars == <<player, frame, panic, overflow_checks, loads, loaded, last, reads,
                 wraps, silent, calls, first_pass, player2, frame2>>

InitSnake == Init /\ overflow_checks /\ player.samples_per_tick = 1

\* Game::play starts a game
PlayBegins ==
    /\ game.status = "idle"
    /\ IF EmptyPositions(PlayReset(game)) = {}
       THEN game' = [PlayReset(game) EXCEPT !.status = "searching"]
       ELSE \E pos \in EmptyPositions(PlayReset(game)) :
               game' = AddFood(PlayReset(game), pos)
    /\ UNCHANGED player_vars

\* the input loop reads a key
PlayReadsKey ==
    /\ game.status = "playing"
    /\ \E key \in Keys :
          game' = IF key \in {"q", "Q"}
                  THEN [game EXCEPT !.status = "idle"]
                  ELSE [game EXCEPT !.direction = Turn(game.direction, key)]
    /\ UNCHANGED player_vars

\* the input loop finds no key, and the snake moves
PlayMoves ==
    /\ game.status = "playing"
    /\ \A marked \in {MarkOldHead(game)} :
          IF HitsWall(marked)
          THEN game' = [marked EXCEPT !.status = "idle"]
          ELSE \A moved \in {MoveHead(marked)} :
                  IF is_food(moved.board, moved.head)
                  THEN IF EmptyPositions(moved) = {}
                       THEN game' = [Eat(moved) EXCEPT !.status = "searching"]
                       ELSE \E pos \in EmptyPositions(moved) :
                               game' \in TailOutcomes(WriteHead(AddFood(Eat(moved), pos)))
                  ELSE IF is_body(moved.board, moved.head)
                  THEN game' = [moved EXCEPT !.status = "idle"]
                  ELSE game' \in TailOutcomes(WriteHead(moved))
    /\ UNCHANGED player_vars

NextSnake ==
    \/ PlayBegins
    \/ PlayReadsKey
    \/ PlayMoves

SpecSnake == InitSnake /\ [][NextSnake]_vars

----------------------------------------------------------------------------
(* The claims *)

Ch(c) == player.channels[c]

\* the pattern break a line leaves pending: its last channel's, if any
LineBreak(ln) ==
    LET with == { c \in Channels : ln[c].effect.kind = "PatternBreak" }
    IN  IF with = {} THEN NoBreak
        ELSE ln[CHOOSE c \in with : \A d \in with : d <= c].effect.value

\* C1: once finished is true, every later call returns the frame (0,0), does
\* not abort and leaves the whole player state unchanged.
Thm_C1 ==
    [][player.finished => (frame' = <<0, 0>> /\ panic' = "none" /\ player' = player)]_vars

Wit_C1 == player.finished /\ silent >= 2 /\ frame = <<0, 0>> /\ panic = "none"

\* C2: finished is false at construction, becomes true only in a call at a
\* line boundary where the position list is exhausted, a call that returns
\* (0,0), and once true it never becomes false again.
Thm_C2 ==
    /\ ~player.finished
    /\ [][/\ player.finished => player'.finished
          /\ (~player.finished /\ player'.finished) =>
                /\ AtLineBoundary(player)
                /\ SongPosition(player'.position) = NoPattern
                /\ frame' = <<0, 0>>
                /\ last' = "finished"]_vars

Wit_C2 == player.finished /\ last = "finished" /\ silent = 0 /\ loads = 2

Thm_C4 ==
    [][/\ (player.pattern_break # NoBreak /\ ~AtLineBoundary(player) /\ panic' = "none") =>
             /\ player'.position = player.position
             /\ player'.line = player.line
             /\ player'.pattern_break = player.pattern_break
             /\ player'.ticks_left \in {player.ticks_left, player.ticks_left - 1}
       /\ (last' = "line" /\ panic' = "none" /\ LineBreak(loaded') # NoBreak) =>
             /\ player'.pattern_break = LineBreak(loaded')
             /\ player'.position = NextLine(player).p.position
             /\ player'.line = NextLine(player).p.line + 1
             /\ player'.ticks_left = WrappingDec(player'.ticks_per_line)
       /\ (player.pattern_break # NoBreak /\ AtLineBoundary(player) /\ panic' = "none") =>
             /\ player'.position > player.position
             /\ player'.pattern_break =
                    IF last' = "line" THEN LineBreak(loaded') ELSE NoBreak]_vars

\* a line at position 1 was entered at row 1 by the break of the line before
Wit_C4 ==
    /\ last = "tick" /\ loads = 2 /\ player.position = 1 /\ player.line = 2
    /\ player.ticks_left = 0 /\ player.pattern_break = NoBreak

\* C5: every call returns a frame without arithmetic underflow: after each
\* line load 0 <= ticks_left < ticks_per_line and 0 <= samples_left <
\* samples_per_tick, also for Set speed 0 and for samples_per_tick = 0.
Cex_C5 ==
    /\ panic # "counters"
    /\ ~CounterWrapped(player)
    /\ last = "line" =>
          /\ player.ticks_left < player.ticks_per_line
          /\ player.samples_left < player.samples_per_tick

\* C6: a channel volume in [0,64] is still in [0,64] after a Volume slide
\* tick update, whatever the slide amount.
Thm_C6 ==
    [][(last' = "tick" /\ panic' = "none") =>
          \A c \in Channels :
             (Ch(c).effect.kind = "VolumeSlide" /\ Ch(c).volume \in 0 .. 64) =>
                player'.channels[c].volume \in 0 .. 64]_vars

\* a slide up by 15 from 32 stops at 62
Wit_C6 ==
    \E c \in Channels :
        /\ last = "tick" /\ player.ticks_left = 0
        /\ Ch(c).effect = Effect("VolumeSlide", 15) /\ Ch(c).volume = 62

\* C7: after Slide up(n) and Slide down(n) tick updates the 16-bit pitch has
\* not wrapped around: a Slide up whose n exceeds the pitch does not underflow.
Cex_C7 ==
    [][last' = "tick" =>
          \A c \in Channels :
             /\ Ch(c).effect.kind = "SlideUp" =>
                   /\ panic' # "period"
                   /\ player'.channels[c].note_period <= Ch(c).note_period
             /\ Ch(c).effect.kind = "SlideDown" =>
                   /\ panic' # "period"
                   /\ player'.channels[c].note_period \in {0} \cup
                         (Ch(c).note_period .. U16 - 1)]_vars

\* C8: whenever a call wraps the read position of a looping sample, the
\* integer read position after the wrap is in [loop-start, loop-start +
\* loop-length).
Thm_C8 ==
    \A c \in Channels :
        wraps[c] =>
            /\ Ch(c).sample_loops
            /\ AsIndex(Ch(c).sample_position) >= Ch(c).repeat_point
            /\ AsIndex(Ch(c).sample_position) < Ch(c).repeat_point + Ch(c).repeat_length

Wit_C8 == \E c \in Channels : wraps[c] /\ Ch(c).repeat_point = 100 /\ last = "sample"

\* the voice of a non-looping sample that reached the sample's end
StoppedVoice(ch) ==
    /\ ch.sample_data # NoData /\ ~ch.sample_loops /\ ch.sample_length # 0
    /\ ch.note_period = 0 /\ AsIndex(ch.sample_position) >= ch.sample_length

\* C9: a non-looping voice has pitch 0 after the first call that takes its
\* read position to the sample's length or past it, and from then on it
\* stays at pitch 0 and is not read until a line supplies a non-empty note:
\* no recurring effect tick makes it play again.
Cex_C9 ==
    [][/\ \A c \in Channels :
             (panic' = "none" /\ reads'[c] # NoRead /\ ~player'.channels[c].sample_loops
              /\ AsIndex(player'.channels[c].sample_position)
                    >= player'.channels[c].sample_length) =>
                player'.channels[c].note_period = 0
       /\ \A c \in Channels :
             (StoppedVoice(Ch(c)) /\ last' \in {"tick", "sample"} /\ panic' = "none") =>
                /\ player'.channels[c].note_period = 0
                /\ reads'[c] = NoRead]_vars

\* C10 as claimed: on a line with Arpeggio(0,0) the channel's pitch is the
\* note's base pitch at every tick of the line and after the line completes.
Cex_C10 ==
    [][(last' \in {"tick", "sample"} /\ panic' = "none") =>
          \A c \in Channels :
             Ch(c).effect = Effect("Arpeggio", 0) =>
                player'.channels[c].note_period = Ch(c).note_period]_vars

\* C10 as amended: on a line with Arpeggio(0,0) the channel's pitch is the
\* note's base pitch at every tick of the line and after the line completes,
\* unless the voice was stopped (pitch 0) at the end of a non-looping sample.
Thm_C10 ==
    [][(last' \in {"tick", "sample"} /\ panic' = "none") =>
          \A c \in Channels :
             Ch(c).effect = Effect("Arpeggio", 0) =>
                \/ player'.channels[c].note_period = Ch(c).note_period
                \/ StoppedVoice(player'.channels[c])]_vars

\* the line of a looping voice with Arpeggio(0,0) is complete, at its base pitch
Wit_C10 ==
    \E c \in Channels :
        /\ last = "tick" /\ player.ticks_left = 0 /\ player.ticks_per_line = 6
        /\ Ch(c).effect = Effect("Arpeggio", 0) /\ Ch(c).note_period = 428
        /\ Ch(c).sample_loops

\* the calls a line is said to occupy
LineCalls(p) == p.ticks_per_line * p.samples_per_tick

\* C11: each loaded line occupies exactly ticks_per_line x samples_per_tick
\* consecutive calls, the loading call included, and each tick exactly
\* samples_per_tick calls: the k-th call of a line (k from 1) is in tick
\* (k - 1) div samples_per_tick and is sample (k - 1) mod samples_per_tick of
\* that tick, and no line load aborts on its counters.
Cex_C11 ==
    loads > 0 =>
        /\ panic # "counters"
        /\ panic = "none" =>
              /\ calls \in 1 .. LineCalls(player)
              /\ player.ticks_left =
                    player.ticks_per_line - 1 - ((calls - 1) \div player.samples_per_tick)
              /\ player.samples_left =
                    player.samples_per_tick - 1 - ((calls - 1) % player.samples_per_tick)

\* the channels of a line whose Set speed is taken (value <= 31), and those
\* whose Set speed is not (value > 31)
SpeedSetters(ln) ==
    { c \in Channels : ln[c].effect.kind = "SetSpeed" /\ ln[c].effect.value <= 31 }

BpmSetters(ln) ==
    { c \in Channels : ln[c].effect.kind = "SetSpeed" /\ ln[c].effect.value > 31 }

\* the speed a line sets: its last channel's
LineSpeed(ln) ==
    ln[CHOOSE c \in SpeedSetters(ln) : \A d \in SpeedSetters(ln) : d <= c].effect.value

\* the line with the effect of its Set speed notes of value > 31 removed
WithoutBpm(ln) ==
    [c \in Channels |->
        IF c \in BpmSetters(ln) THEN Note(ln[c].sample_no, ln[c].period, NoEffect)
        ELSE ln[c]]

\* C12: a call that loads a line with Set speed(v), v <= 31, leaves
\* ticks_per_line = v and the third = v div 3; every other call leaves both as
\* they were, so they last until the next such line; and loading a line with
\* Set speed(v), v > 31, leaves the player and the frame as loading the same
\* line without that effect does.
Thm_C12 ==
    [][panic' = "none" =>
          /\ (last' = "line" /\ SpeedSetters(loaded') # {}) =>
                /\ player'.ticks_per_line = LineSpeed(loaded')
                /\ player'.third_ticks_per_line = LineSpeed(loaded') \div 3
          /\ ~(last' = "line" /\ SpeedSetters(loaded') # {}) =>
                /\ player'.ticks_per_line = player.ticks_per_line
                /\ player'.third_ticks_per_line = player.third_ticks_per_line
          /\ (last' = "line" /\ BpmSetters(loaded') # {}) =>
                \E ob \in OobChoices(ResetCounters(Loaded(player, loaded'))) :
                    /\ player' = NewLineCall(player, WithoutBpm(loaded'), ob).player
                    /\ frame' = NewLineCall(player, WithoutBpm(loaded'), ob).frame]_vars

\* Set speed 4 on the first line, Set speed 32 on the second: 4 and 1 still
Wit_C12 ==
    /\ loads = 2 /\ last = "tick" /\ panic = "none"
    /\ loaded[0].effect = Effect("SetSpeed", 32)
    /\ player.ticks_per_line = 4 /\ player.third_ticks_per_line = 1
    /\ player.ticks_left = 0

\* the note starts a sample that the mixing loop will read
StartsVoice(note) ==
    /\ HasSample(note.sample_no) /\ note.period # 0
    /\ SampleTable[note.sample_no].length # 0

\* C13: in the call that loads a line with Sample offset(n) on a channel, the
\* byte read on that channel, if one is read, is the byte at index n x 256,
\* and one is read there when the note starts a sample: the offset overrides
\* the reset to zero of the note load.
Thm_C13 ==
    [][(last' = "line" /\ panic' = "none") =>
          \A c \in Channels :
             loaded'[c].effect.kind = "SampleOffset" =>
                /\ reads'[c] \in {NoRead, loaded'[c].effect.value * 256}
                /\ StartsVoice(loaded'[c]) =>
                      reads'[c] = loaded'[c].effect.value * 256]_vars

\* Sample offset 10 on a 3000-byte sample: the byte at 2560 was read
Wit_C13 ==
    \E c \in Channels :
        /\ last = "line" /\ panic = "none"
        /\ loaded[c] = Note(2, 428, Effect("SampleOffset", 10))
        /\ reads[c] = 2560 /\ Ch(c).sample_length > 2560

\* the channels of a line whose note names a sample the module does not have
MissingSample(ln) ==
    { c \in Channels : ~IsEmpty(ln[c]) /\ ~HasSample(ln[c].sample_no) }

\* the line with those notes emptied, their effects kept
Emptied(ln) ==
    [c \in Channels |->
        IF c \in MissingSample(ln) THEN Note(0, 0, ln[c].effect) ELSE ln[c]]

\* C14 as claimed: a note that names a sample the module does not contain
\* leaves the channel as it was, its recurring effect included; the channel
\* after the call is the channel before it, mixed once.  (Stated for the
\* notes that carry no effect of their own, where nothing but the missing
\* sample is at work.)
Cex_C14 ==
    [][(last' = "line" /\ panic' = "none") =>
          \A c \in MissingSample(loaded') :
             loaded'[c].effect = NoEffect =>
                player'.channels[c] = PumpChannel(Ch(c), 0).ch]_vars

\* C14 as amended: a note that names a sample the module does not contain
\* leaves the channel's assigned sample and step as they were, and the line
\* is loaded as the same line with that note emptied and its effect kept: the
\* recurring effect is cleared or replaced by the note's own, and the call
\* returns the same player and frame.
Thm_C14 ==
    [][(last' = "line" /\ MissingSample(loaded') # {}) =>
          /\ panic' # "none" =>
                overflow_checks /\ ResetUnderflows(Loaded(player, Emptied(loaded')))
          /\ panic' = "none" =>
                /\ \A c \in MissingSample(loaded') :
                      /\ player'.channels[c].sample_data = Ch(c).sample_data
                      /\ player'.channels[c].sample_length = Ch(c).sample_length
                      /\ player'.channels[c].note_step = Ch(c).note_step
                      /\ player'.channels[c].effect =
                            IF loaded'[c].effect.kind \in Recurring
                            THEN loaded'[c].effect ELSE NoEffect
                /\ \E ob \in OobChoices(ResetCounters(Loaded(player, Emptied(loaded')))) :
                      /\ player' = NewLineCall(player, Emptied(loaded'), ob).player
                      /\ frame' = NewLineCall(player, Emptied(loaded'), ob).frame]_vars

\* a playing channel with a Volume slide was given a note of sample 9: it
\* plays on, the slide gone
Wit_C14 ==
    /\ loads = 2 /\ last = "line" /\ panic = "none"
    /\ loaded[0] = Note(9, 428, NoEffect)
    /\ Ch(0).sample_data = 2 /\ Ch(0).volume = 62 /\ Ch(0).effect = NoEffect
    /\ reads[0] # NoRead

\* a call that reaches the mixing loop and returns
Mixes == last' \in {"line", "tick", "sample"} /\ panic' = "none"

\* the player of a step as the mixing loop of the call finds it
PreMix ==
    CASE last' = "line" -> ResetCounters(Loaded(player, loaded'))
      [] last' = "tick" -> EndOfTick(player)
      [] OTHER -> JustSample(player)

\* C15: in every call that mixes, a channel with non-zero pitch and a sample
\* of non-zero length is read once and its read position is advanced by its
\* step once, then set to the loop start if the sample loops and the position
\* reached the loop's end, or the pitch is set to 0 if the sample does not loop
\* and the position reached its length; a channel with pitch 0 or a sample of
\* zero length is not read, is left as it was, and a side whose two channels
\* are such is 0 in the frame.
Thm_C15 ==
    [][Mixes =>
          /\ \A pm \in {PreMix} : \A c \in Channels :
                LET b == pm.channels[c]
                    a == player'.channels[c]
                    moved == b.sample_position + b.note_step
                IN  IF b.note_period # 0 /\ b.sample_length # 0
                    THEN /\ reads'[c] = AsIndex(b.sample_position)
                         /\ a.volume = b.volume
                         /\ IF b.sample_loops
                            THEN /\ a.note_period = b.note_period
                                 /\ a.sample_position =
                                       IF AsIndex(moved) >= b.repeat_point + b.repeat_length
                                       THEN FractionalNew(b.repeat_point) ELSE moved
                            ELSE /\ a.sample_position = moved
                                 /\ a.note_period =
                                       IF AsIndex(moved) >= b.sample_length
                                       THEN 0 ELSE b.note_period
                    ELSE reads'[c] = NoRead /\ a = b
          /\ (reads'[0] = NoRead /\ reads'[3] = NoRead) => frame'[1] = 0
          /\ (reads'[1] = NoRead /\ reads'[2] = NoRead) => frame'[2] = 0]_vars

\* one channel was read and moved on while another, with a pitch and a sample
\* of zero length, was skipped
Wit_C15 ==
    \E c, d \in Channels :
        /\ panic = "none" /\ reads[c] # NoRead /\ Ch(c).sample_position > 0
        /\ reads[d] = NoRead /\ Ch(d).note_period = 428 /\ Ch(d).sample_data = 4
        /\ Ch(d).sample_length = 0

\* what the channel added to its side in the last call: nothing if it was not
\* read, else its byte (x if the read left the sample) x 256 x volume / 64
Contribution(c, x) ==
    IF reads[c] = NoRead THEN 0
    ELSE LET byte == IF reads[c] < Ch(c).sample_length
                     THEN Wave(Ch(c).sample_data, reads[c]) ELSE x
         IN  TruncDiv(byte * 256 * Ch(c).volume, 64)

\* C16: the frame has left = clip(c0 + c3) and right = clip(c1 + c2), ci the
\* contribution of channel i (signed byte x 256 x volume / 64, 0 for a
\* channel that was not read) and clip the limit to [-32768, 32767].
Thm_C16 ==
    \E x \in [Channels -> OobBytes] :
        /\ frame[1] = Clamp(Contribution(0, x[0]) + Contribution(3, x[3]), -32768, 32767)
        /\ frame[2] = Clamp(Contribution(1, x[1]) + Contribution(2, x[2]), -32768, 32767)

\* four channels at full volume on a byte of 127: both sides are clipped
Wit_C16 ==
    /\ last = "line" /\ panic = "none" /\ frame = <<32767, 32767>>
    /\ \A c \in Channels : reads[c] = 0 /\ Ch(c).volume = 64 /\ Ch(c).sample_data = 1

\* the call set finished and left no pattern break pending
SongEnds ==
    /\ last' = "finished" /\ player'.finished /\ player'.pattern_break = NoBreak

\* the call loaded the line at row `line` of song position `position`: the
\* cursor is one past it, and the pending break is the loaded line's own
LoadsLineAt(position, line) ==
    /\ last' = "line" /\ player'.position = position /\ player'.line = line + 1
    /\ player'.pattern_break = LineBreak(loaded')

\* C17: a call at a line boundary with a pattern break to row r pending, the
\* player at song position p, clears the pending break and loads row r of
\* position p + 1, or row 0 of position p + 2 if the pattern at p + 1 has no
\* row r; it sets finished instead if the position it needs is past the end
\* of the position list.
Thm_C17 ==
    [][(AtLineBoundary(player) /\ player.pattern_break # NoBreak
        /\ panic' = "none" /\ last' \in {"line", "finished"} /\ ~player.finished) =>
          LET p == player.position
              r == player.pattern_break
          IN  IF SongPosition(p + 1) = NoPattern THEN SongEnds
              ELSE IF HasLine(r) THEN LoadsLineAt(p + 1, r)
              ELSE IF SongPosition(p + 2) = NoPattern THEN SongEnds
              ELSE LoadsLineAt(p + 2, 0)]_vars

\* a break to row 70 at position 0: the line loaded next is row 0 of position 2
Wit_C17 ==
    /\ loads = 2 /\ last = "line" /\ panic = "none"
    /\ player.position = 2 /\ player.line = 1 /\ player.pattern_break = NoBreak

\* C18: a call at a line boundary, no pattern break pending, whose line
\* cursor is past the last line of the pattern at the current position p
\* loads row 0 of position p + 1 in that same call, so no frame is returned
\* in between; when p is the last position of the list it sets finished.
Thm_C18 ==
    [][(AtLineBoundary(player) /\ player.pattern_break = NoBreak
        /\ SongPosition(player.position) # NoPattern /\ ~HasLine(player.line)
        /\ panic' = "none" /\ last' \in {"line", "finished"}) =>
          IF SongPosition(player.position + 1) = NoPattern
          THEN SongEnds /\ frame' = <<0, 0>> /\ calls' = calls
          ELSE LoadsLineAt(player.position + 1, 0) /\ calls' = 1]_vars

\* two lines without a pattern break filled position 0; the third line
\* loaded is row 0 of position 1
Wit_C18 ==
    /\ loads = 3 /\ last = "line" /\ panic = "none"
    /\ player.position = 1 /\ player.line = 1
    /\ Ch(0).sample_data = 2 /\ Ch(1).sample_data = 1

\* the recurring effect a note leaves on its channel
EffectLeft(note) == IF note.effect.kind \in Recurring THEN note.effect ELSE NoEffect

\* C19 as claimed: an empty note, whatever effect it carries, leaves the
\* channel as it was but for its recurring effect, which is cleared; the
\* channel after the call is that channel, mixed once.
Cex_C19 ==
    [][(last' = "line" /\ panic' = "none") =>
          \A c \in Channels :
             IsEmpty(loaded'[c]) =>
                player'.channels[c] =
                    PumpChannel([Ch(c) EXCEPT !.effect = NoEffect], 0).ch]_vars

\* C19 as amended: an empty note leaves the channel's assigned sample and
\* step as they were and puts the note's own effect, if it is a recurring
\* one, in the place of the channel's recurring effect, which is otherwise
\* cleared; unless the note carries Set volume or Sample offset, the pitch,
\* volume and read position are as they were too: the channel after the call
\* is that channel, mixed once.
Thm_C19 ==
    [][(last' = "line" /\ panic' = "none") =>
          \A c \in Channels :
             IsEmpty(loaded'[c]) =>
                /\ player'.channels[c].effect = EffectLeft(loaded'[c])
                /\ player'.channels[c].sample_data = Ch(c).sample_data
                /\ player'.channels[c].note_step = Ch(c).note_step
                /\ loaded'[c].effect.kind \notin {"SetVolume", "SampleOffset"} =>
                      player'.channels[c] =
                          PumpChannel([Ch(c) EXCEPT !.effect = EffectLeft(loaded'[c])], 0).ch]_vars

\* a looping voice whose Volume slide took it to 62 met an empty note with
\* an effect the player does not handle: it plays on, the slide cleared
Wit_C19 ==
    /\ loads = 2 /\ last = "line" /\ panic = "none"
    /\ loaded[0] = Note(0, 0, Effect("Vibrato", 1))
    /\ Ch(0).sample_data = 2 /\ Ch(0).note_period = 428 /\ Ch(0).volume = 62
    /\ Ch(0).effect = NoEffect /\ reads[0] # NoRead

\* C20: Set volume(value) leaves the channel volume at value clamped into
\* [0,64], so the volume of every channel is in [0,64] in every reachable
\* state.
Cex_C20 == \A c \in Channels : Ch(c).volume \in 0 .. 64

\* C21: at each tick boundary a channel with Volume slide by n gets the
\* volume min(volume + n, 64) when n is an increase and max(volume + n, 0)
\* when it is a decrease: a slide that would pass the bound lands on it.
Cex_C21 ==
    [][(last' = "tick" /\ panic' = "none") =>
          \A c \in Channels :
             (Ch(c).effect.kind = "VolumeSlide" /\ Ch(c).volume \in 0 .. 64) =>
                player'.channels[c].volume =
                    Clamp(Ch(c).volume + Ch(c).effect.value, 0, 64)]_vars

\* C22: the first traversal of a looping sample after a note load is bounded
\* by the sample's stored length: while a channel is on its first pass, a
\* call wraps its read position only if the position reached that length.
Cex_C22 ==
    [][Mixes =>
          \A pm \in {PreMix} : \A c \in Channels :
             ((first_pass[c] \/ (last' = "line" /\ Assigns(loaded'[c]))) /\ wraps'[c]) =>
                AsIndex(pm.channels[c].sample_position + pm.channels[c].note_step)
                    >= pm.channels[c].sample_length]_vars

\* the half steps Arpeggio(x,y), n = 16 x + y, is said to shift the pitch by
\* at the tick that leaves ticks_left ticks, the third being lower_third
ArpeggioShift(n, ticks_left, lower_third) ==
    IF ticks_left = lower_third * 2 THEN n \div 16
    ELSE IF ticks_left = lower_third THEN (n % 16) - (n \div 16)
    ELSE 0

\* the pitch `half_steps` away in the table, the pitch itself if there is none
ShiftedPitch(period, half_steps) ==
    IF ShiftPeriod(period, half_steps) = NoPeriod THEN period
    ELSE ShiftPeriod(period, half_steps)

\* C23: for a channel with Arpeggio(x,y) the tick at the upper third shifts
\* the pitch by x half steps and the tick at the lower third by y - x half
\* steps, also when y < x; a shift that leaves the table changes nothing, and
\* no such tick aborts.  (A voice stopped at its sample's end by the same
\* call is set aside.)
Cex_C23 ==
    [][last' = "tick" =>
          \A c \in Channels :
             Ch(c).effect.kind = "Arpeggio" =>
                /\ panic' # "arpeggio"
                /\ panic' = "none" =>
                      \/ StoppedVoice(player'.channels[c])
                      \/ player'.channels[c].note_period =
                            ShiftedPitch(Ch(c).note_period,
                                         ArpeggioShift(Ch(c).effect.value,
                                                       player.ticks_left - 1,
                                                       player.third_ticks_per_line))]_vars

\* the pitch a slide is said to leave: n more for Slide down, n less for
\* Slide up, the same for every other effect
SlidPitch(ch) ==
    CASE ch.effect.kind = "SlideDown" -> ch.note_period + ch.effect.value
      [] ch.effect.kind = "SlideUp" -> ch.note_period - ch.effect.value
      [] OTHER -> ch.note_period

\* the channel has, after the call, the pitch `period` and the step that
\* belongs to it, or was stopped at its sample's end by the mixing loop
HasPitch(ch, period, step) ==
    /\ ch.note_step = step
    /\ ch.note_period = period \/ StoppedVoice(ch)

\* C24: recurring effects act in the calls at a tick boundary only, and a
\* line has ticks_per_line - 1 of them: such a call moves the pitch of a
\* channel with Slide down(n) up by n and that of a channel with Slide up(n)
\* down by n and recomputes the step from the new pitch, and leaves pitch and
\* step of a channel without a recurring effect alone; a call that is just
\* another sample leaves every pitch and step alone; and the line-loading
\* call leaves the pitch and step that the note gives.
Cex_C24 ==
    [][/\ panic' # "period"
       /\ (last' = "line" /\ panic' = "none") =>
             /\ player'.ticks_left \in 0 .. player'.ticks_per_line - 1
             /\ \A c \in Channels :
                   LET note == loaded'[c]
                       clock == player.clock_ticks_per_device_sample
                   IN  IF Assigns(note) /\ note.period # 0
                       THEN HasPitch(player'.channels[c], note.period,
                                     ApplyPeriod(clock, note.period))
                       ELSE HasPitch(player'.channels[c], Ch(c).note_period,
                                     Ch(c).note_step)
       /\ (last' = "tick" /\ panic' = "none") =>
             /\ player'.ticks_left = player.ticks_left - 1
             /\ \A c \in Channels :
                   IF Ch(c).effect.kind \in {"SlideUp", "SlideDown"}
                   THEN HasPitch(player'.channels[c], SlidPitch(Ch(c)),
                                 ApplyPeriod(player.clock_ticks_per_device_sample,
                                             SlidPitch(Ch(c))))
                   ELSE Ch(c).effect.kind \notin Recurring =>
                           HasPitch(player'.channels[c], Ch(c).note_period,
                                    Ch(c).note_step)
       /\ (last' = "sample" /\ panic' = "none") =>
             /\ player'.ticks_left = player.ticks_left
             /\ \A c \in Channels :
                   HasPitch(player'.channels[c], Ch(c).note_period, Ch(c).note_step)]_vars

\* C25: whenever a call reads a waveform byte for a channel, the integer
\* read index is less than the length of the channel's sample.
Cex_C25 ==
    \A c \in Channels : reads[c] # NoRead => reads[c] < Ch(c).sample_length

\* C26: the song position never decreases, the pair (position, line) grows
\* strictly from one line load to the next, and with ticks_per_line >= 1 and
\* samples_per_tick >= 1 throughout, repeated calls make finished true.
Cex_C26 ==
    /\ [][/\ player'.position >= player.position
          /\ (last' = "line" /\ panic' = "none") =>
                \/ player'.position > player.position
                \/ player'.position = player.position /\ player'.line > player.line]_vars
    /\ <>player.finished

\* following the stored directions from pos reaches the head within n cells
RECURSIVE Follows(_, _, _)
Follows(g, pos, n) ==
    \/ pos = g.head
    \/ /\ n > 0
       /\ is_body(g.board, pos)
       /\ Follows(g, Moved(pos, Cell(g.board, pos)), n - 1)

\* Game::play is running
InPlay == game.status \in {"playing", "searching"}

\* C27: while Game::play runs, the tail is a board cell holding a body piece
\* and following the stored directions from the tail reaches the head; the
\* removal of the tail always yields a direction, so the "Bad game state"
\* panic never happens, whatever the keys and the food positions.
Thm_C27 ==
    /\ game.status # "bad_game_state"
    /\ InPlay =>
          /\ game.tail \in DOMAIN game.board
          /\ is_body(game.board, game.tail)
          /\ Follows(game, game.tail, game.width * game.height)

\* the snake has eaten and is four cells or more, its tail has been removed
\* and the next move removes the tail again
Wit_C27 ==
    /\ game.status = "playing"
    /\ game.digesting = 0
    /\ game.tail # Position(game.height \div 4, game.width \div 4)
    /\ game.tail # game.head
    /\ Cardinality({ pos \in DOMAIN game.board : is_body(game.board, pos) }) >= 4

====
